---------------------------- MODULE Spec2Model ----------------------------
(***************************************************************************)
(* A model of PyNBT: the NBT tag codec (nbt/tags), the compound and list   *)
(* containers, and the region file container (nbt/RegionFile.py).          *)
(*                                                                         *)
(* Byte strings (bytes objects, BytesIO buffers, the region file) are kept  *)
(* at their real lengths and offsets.  A byte string is the record          *)
(*   [len |-> number of bytes, nz |-> function from the 0-based positions   *)
(*    of its non-zero bytes to their values]                                *)
(* so the 8 KiB header and the zero padding of a sector cost nothing.       *)
(***************************************************************************)
EXTENDS Integers, Sequences, FiniteSets, TLC

(***************************************************************************)
(* Byte strings                                                            *)
(***************************************************************************)
Min(a, b) == IF a <= b THEN a ELSE b

Max(a, b) == IF a >= b THEN a ELSE b

BEmpty == [len |-> 0, nz |-> <<>>]

\* n zero bytes: b'\x00' * n
Zeros(n) == [len |-> n, nz |-> <<>>]

\* the byte at 0-based position p
At(b, p) == IF p \in DOMAIN b.nz THEN b.nz[p] ELSE 0

\* a bytes literal, from the sequence of its byte values
FromSeq(s) ==
    [len |-> Len(s),
     nz  |-> [p \in {i - 1 : i \in {j \in 1..Len(s) : s[j] # 0}} |-> s[p + 1]]]

\* a + b on bytes
Cat(a, b) ==
    [len |-> a.len + b.len,
     nz  |-> [p \in DOMAIN a.nz \cup {q + a.len : q \in DOMAIN b.nz} |->
                 IF p \in DOMAIN a.nz THEN a.nz[p] ELSE b.nz[p - a.len]]]

\* b[i:j], clipped to the end of b as Python's slices and reads are
Sub(b, i, j) ==
    LET hi == Min(j, b.len)
    IN  IF hi <= i THEN BEmpty
        ELSE [len |-> hi - i,
              nz  |-> [p \in {q - i : q \in {r \in DOMAIN b.nz : r >= i /\ r < hi}}
                          |-> b.nz[p + i]]]

\* v >> (8*k), by repeated floor division (no power above 2^31 is formed)
RECURSIVE ShiftBytes(_, _)
ShiftBytes(v, k) == IF k = 0 THEN v ELSE ShiftBytes(v \div 256, k - 1)

\* v.to_bytes(w, byteorder='big'): two's complement when v is negative
ToBytes(v, w) == FromSeq([i \in 1..w |-> ShiftBytes(v, w - i) % 256])

\* int.from_bytes(b[0:k], byteorder='big', signed=False); b'' gives 0
RECURSIVE UIntOf(_, _)
UIntOf(b, k) == IF k = 0 THEN 0 ELSE UIntOf(b, k - 1) * 256 + At(b, k - 1)

\* int.from_bytes(b, byteorder='big', signed=False)
UInt(b) == UIntOf(b, b.len)

\* int.from_bytes(b[0:k], byteorder='big', signed=True): the sign bit is the top
\* bit of the bytes actually given, however few they are; b'' gives 0
RECURSIVE SIntOf(_, _)
SIntOf(b, k) ==
    IF k = 0 THEN 0
    ELSE IF k = 1 THEN (IF At(b, 0) >= 128 THEN At(b, 0) - 256 ELSE At(b, 0))
    ELSE SIntOf(b, k - 1) * 256 + At(b, k - 1)

\* int.from_bytes(b, byteorder='big', signed=True)
SInt(b) == SIntOf(b, b.len)

(***************************************************************************)
(* Tags.  A tag is a record                                                *)
(*   [id, name, n, s, arr, kids, etype]                                    *)
(* id    the variant (get_id());                                           *)
(* name  the name, a sequence of code points, or NoName for None;          *)
(* n     the value of a Byte, Short, Int, Long (and the bit pattern of a   *)
(*       Float or Double, which the codec only packs and unpacks);         *)
(* s     the value of a String, a sequence of code points;                 *)
(* arr   the value of a Byte/Int/Long array: [len, nz], nz mapping the     *)
(*       0-based indices of its non-zero elements to their values;         *)
(* kids  the children of a Compound, the elements of a List (__tags);      *)
(* etype the element type id of a List (__type), 0 for None.               *)
(***************************************************************************)
ID_Byte == 1

ID_Short == 2

ID_Int == 3

ID_Long == 4

ID_Float == 5

ID_Double == 6

ID_Byte_Array == 7

ID_String == 8

ID_List == 9

ID_Compound == 10

ID_Int_Array == 11

ID_Long_Array == 12

\* the name None, of list elements and of load(None, fp)
NoName == <<-1>>

Tag(id, name, n, s, arr, kids, etype) ==
    [id |-> id, name |-> name, n |-> n, s |-> s, arr |-> arr, kids |-> kids,
     etype |-> etype]

\* the Python value None where a tag is expected
NoneTag == Tag(-1, NoName, 0, <<>>, BEmpty, <<>>, 0)

\* TAG_Byte, TAG_Short, TAG_Int, TAG_Long, TAG_Float, TAG_Double (name, value)
TAG_Number(id, name, v) == Tag(id, name, v, <<>>, BEmpty, <<>>, 0)

TAG_String(name, s) == Tag(ID_String, name, 0, s, BEmpty, <<>>, 0)

\* TAG_Byte_Array, TAG_Int_Array, TAG_Long_Array (name, value)
TAG_Array(id, name, arr) == Tag(id, name, 0, <<>>, arr, <<>>, 0)

\* TAG_List(name, list_type) holding the given tags
TAG_List(name, etype, kids) == Tag(ID_List, name, 0, <<>>, BEmpty, kids, etype)

\* TAG_Compound(name) holding the given tags
TAG_Compound(name, kids) == Tag(ID_Compound, name, 0, <<>>, BEmpty, kids, 0)

\* nbt.tags.get_tag_type(type_id) is not None
IsTagType(id) == id \in 1..12

\* the bytes of an integer or floating payload
Width(id) ==
    CASE id = ID_Byte -> 1 [] id = ID_Short -> 2 [] id = ID_Int -> 4
      [] id = ID_Long -> 8 [] id = ID_Float -> 4 [] id = ID_Double -> 8

\* array_type(): the element variant of an array variant
ArrayType(id) ==
    CASE id = ID_Byte_Array -> ID_Byte [] id = ID_Int_Array -> ID_Int
      [] id = ID_Long_Array -> ID_Long

IsNumber(id) == id \in {ID_Byte, ID_Short, ID_Int, ID_Long, ID_Float, ID_Double}

IsArray(id) == id \in {ID_Byte_Array, ID_Int_Array, ID_Long_Array}

(***************************************************************************)
(* UTF-8                                                                   *)
(***************************************************************************)
\* the UTF-8 bytes of one code point (below 65536)
Utf8Char(cp) ==
    IF cp < 128 THEN <<cp>>
    ELSE IF cp < 2048 THEN <<192 + (cp \div 64), 128 + (cp % 64)>>
    ELSE <<224 + (cp \div 4096), 128 + ((cp \div 64) % 64), 128 + (cp % 64)>>

RECURSIVE Utf8Seq(_)
Utf8Seq(s) == IF s = <<>> THEN <<>> ELSE Utf8Char(Head(s)) \o Utf8Seq(Tail(s))

\* s.encode(encoding='UTF-8')
Utf8Encode(s) ==
    IF \A i \in 1..Len(s) : s[i] < 128 THEN FromSeq(s) ELSE FromSeq(Utf8Seq(s))

IsCont(x) == x >= 128 /\ x < 192

\* str(b, encoding='UTF-8') from position p on, appended to acc: strict, so a
\* stray or cut multi-byte sequence raises UnicodeDecodeError
RECURSIVE Utf8From(_, _, _)
Utf8From(b, p, acc) ==
    IF p >= b.len THEN [ok |-> TRUE, s |-> acc]
    ELSE LET b0 == At(b, p)
         IN  IF b0 < 128 THEN Utf8From(b, p + 1, Append(acc, b0))
             ELSE IF b0 >= 194 /\ b0 < 224 /\ p + 1 < b.len /\ IsCont(At(b, p + 1))
                  THEN Utf8From(b, p + 2,
                                Append(acc, (b0 - 192) * 64 + (At(b, p + 1) - 128)))
             ELSE IF b0 >= 224 /\ b0 < 240 /\ p + 2 < b.len
                     /\ IsCont(At(b, p + 1)) /\ IsCont(At(b, p + 2))
                     /\ (b0 - 224) * 4096 + (At(b, p + 1) - 128) * 64 >= 2048
                  THEN Utf8From(b, p + 3,
                                Append(acc, (b0 - 224) * 4096
                                            + (At(b, p + 1) - 128) * 64
                                            + (At(b, p + 2) - 128)))
             ELSE [ok |-> FALSE, s |-> <<>>]

Utf8Decode(b) ==
    IF \A p \in DOMAIN b.nz : b.nz[p] < 128
    THEN [ok |-> TRUE, s |-> [i \in 1..b.len |-> At(b, i - 1)] \o <<>>]
    ELSE Utf8From(b, 0, <<>>)

(***************************************************************************)
(* Encoding: payload()                                                     *)
(***************************************************************************)
\* NBTTag_Array.payload: the Int length, then each element's payload; element
\* i occupies the w bytes from 4 + i*w on
ArrayPayload(id, arr) ==
    LET w == Width(ArrayType(id))
    IN  Cat(ToBytes(arr.len, 4),
            [len |-> arr.len * w,
             nz  |-> [p \in {q \in {i * w + k : i \in DOMAIN arr.nz, k \in 0..(w - 1)} :
                                 At(ToBytes(arr.nz[q \div w], w), q % w) # 0}
                         |-> At(ToBytes(arr.nz[p \div w], w), p % w)]])

\* TAG_String.payload: TAG_Short(len(text)).payload() + text, for a text
\* the Short takes
StringPayload(str) ==
    LET text == Utf8Encode(str) IN Cat(ToBytes(text.len, 2), text)

RECURSIVE Payload(_)
\* TAG_List.payload after the type byte and the length: the elements' payloads
RECURSIVE ListItems(_, _)
ListItems(kids, i) ==
    IF i > Len(kids) THEN BEmpty
    ELSE Cat(Payload(kids[i]), ListItems(kids, i + 1))

\* TAG_Compound.payload, from child i on: id, len(tag.name) (the number of
\* characters of the name), the name's UTF-8 bytes, the payload; then b'\x00'
RECURSIVE CompoundItems(_, _)
CompoundItems(kids, i) ==
    IF i > Len(kids) THEN FromSeq(<<0>>)
    ELSE LET tag == kids[i]
         IN  Cat(ToBytes(tag.id, 1),
             Cat(ToBytes(Len(tag.name), 2),
             Cat(Utf8Encode(tag.name),
             Cat(Payload(tag), CompoundItems(kids, i + 1)))))

\* tag.payload() when it returns
Payload(t) ==
    IF IsNumber(t.id) THEN ToBytes(t.n, Width(t.id))
    ELSE IF IsArray(t.id) THEN ArrayPayload(t.id, t.arr)
    ELSE IF t.id = ID_String THEN StringPayload(t.s)
    ELSE IF t.id = ID_List
         THEN Cat(ToBytes(t.etype, 1),
              Cat(ToBytes(Len(t.kids), 4), ListItems(t.kids, 1)))
    ELSE CompoundItems(t.kids, 1)

(***************************************************************************)
(* Compound.add and Compound.get                                           *)
(***************************************************************************)
\* TAG_Compound.get(name): the index of the first child of that name, 0 if none
IndexOfName(kids, name) ==
    IF \E i \in 1..Len(kids) : kids[i].name = name
    THEN CHOOSE i \in 1..Len(kids) :
            kids[i].name = name /\ \A j \in 1..(i - 1) : kids[j].name # name
    ELSE 0

\* a sequence without its i-th element
RemoveAt(q, i) == SubSeq(q, 1, i - 1) \o SubSeq(q, i + 1, Len(q))

\* list.insert(i, x) with the 0-based index i
InsertAt(q, i, x) == SubSeq(q, 1, i) \o <<x>> \o SubSeq(q, i + 1, Len(q))

\* a == b raises: NBTTag.__eq__, which every variant but Compound and List
\* inherits, evaluates the undefined name TAG_Generic once a is not b
EqRaises(a) == a.id # ID_Compound /\ a.id # ID_List

\* self.__tags.remove(x) for the child x at index k: list.remove compares the
\* elements before x with x, calling their __eq__
RemoveRaises(kids, k) == \E j \in 1..(k - 1) : EqRaises(kids[j])

\* an add that never looks for a child of the same name
AddUnchecked(kids, tag, replace) == [ok |-> TRUE, err |-> "", kids |-> Append(kids, tag)]

\* TAG_Compound.add(tag, replace) on the children kids
CompoundAdd(kids, tag, replace) ==
    LET k == IndexOfName(kids, tag.name)
    IN  IF k = 0 THEN [ok |-> TRUE, err |-> "", kids |-> Append(kids, tag)]
        ELSE IF ~replace THEN [ok |-> FALSE, err |-> "ValueError", kids |-> kids]
        ELSE IF RemoveRaises(kids, k)
             THEN [ok |-> FALSE, err |-> "NameError", kids |-> kids]
        ELSE [ok |-> TRUE, err |-> "", kids |-> InsertAt(RemoveAt(kids, k), k - 1, tag)]

(***************************************************************************)
(* Python values.  The value of a scalar tag is a record of the same shape *)
(* with id 0 and, in etype, the Python type it has: int, float, str, list. *)
(***************************************************************************)
PyInt == 1

PyFloat == 2

PyStr == 3

PyList == 4

\* the Python type of the value a tag of the given variant holds
PyType(id) ==
    IF id \in {ID_Byte, ID_Short, ID_Int, ID_Long} THEN PyInt
    ELSE IF id \in {ID_Float, ID_Double} THEN PyFloat
    ELSE IF id = ID_String THEN PyStr
    ELSE PyList

\* a Python int
IntValue(v) == Tag(0, NoName, v, <<>>, BEmpty, <<>>, PyInt)

\* a Python str
StrValue(str) == Tag(0, NoName, 0, str, BEmpty, <<>>, PyStr)

\* the value of a tag (tag.value): the tag itself for a Compound or a List,
\* a Python value otherwise
ValueOf(t) ==
    IF t.id \in {ID_Compound, ID_List} THEN t
    ELSE [t EXCEPT !.id = 0, !.name = NoName, !.etype = PyType(t.id)]

\* issubclass(type(item), NBTTag)
IsTag(item) == item.id \in 1..12

\* min_value <= value <= max_value of NBTTag_Integer; an Int or a Long takes
\* every integer of the model
InRange(id, v) ==
    CASE id = ID_Byte -> v >= -128 /\ v <= 127
      [] id = ID_Short -> v >= -32768 /\ v <= 32767
      [] OTHER -> TRUE

\* tag.payload() raises TypeError: below t, or t itself, is a String whose
\* text is longer than a Short allows, so TAG_Short(None, len(text)) raises
RECURSIVE PayloadRaises(_)
PayloadRaises(t) ==
    \/ t.id = ID_String /\ ~InRange(ID_Short, Utf8Encode(t.s).len)
    \/ \E i \in 1..Len(t.kids) : PayloadRaises(t.kids[i])

\* validate(value) of the variant id does not raise TypeError.  (A Float or a
\* Double also takes an int; the inputs offer it none, since n is then read
\* as the bit pattern.)
Validate(id, value) ==
    /\ value.id = 0
    /\ CASE id \in {ID_Byte, ID_Short, ID_Int, ID_Long} ->
               value.etype = PyInt /\ InRange(id, value.n)
          [] id \in {ID_Float, ID_Double} -> value.etype \in {PyFloat, PyInt}
          [] id = ID_String -> value.etype = PyStr
          [] IsArray(id) ->
               /\ value.etype = PyList
               /\ \A i \in DOMAIN value.arr.nz : InRange(ArrayType(id), value.arr.nz[i])
          [] OTHER -> TRUE

\* the tag of variant id made from a valid value: tag_type(name, value)
FromValue(id, name, value) == Tag(id, name, value.n, value.s, value.arr, <<>>, 0)

\* what a call on a container leaves: whether it returned, the exception it
\* raised, the container's tags after it
Done(kids) == [ok |-> TRUE, err |-> "", kids |-> kids]

Fails(err, kids) == [ok |-> FALSE, err |-> err, kids |-> kids]

\* tag.value = value on the i-th of kids: Compound and List define value
\* without a setter; the others validate
SetValue(kids, i, value) ==
    IF kids[i].id \in {ID_Compound, ID_List} THEN Fails("AttributeError", kids)
    ELSE IF ~Validate(kids[i].id, value) THEN Fails("TypeError", kids)
    ELSE Done([kids EXCEPT ![i] = FromValue(kids[i].id, kids[i].name, value)])

(***************************************************************************)
(* TAG_List: the operations on __type (etype) and __tags (kids).  A result *)
(* is [ok, err, etype, kids].                                              *)
(***************************************************************************)
ListDone(etype, kids) == [ok |-> TRUE, err |-> "", etype |-> etype, kids |-> kids]

ListFails(err, etype, kids) == [ok |-> FALSE, err |-> err, etype |-> etype, kids |-> kids]

\* list.insert(index, x) for an index in 0..len; a greater one appends
PyInsert(q, index, x) == InsertAt(q, Min(index, Len(q)), x)

\* an insert that takes any tag whatever the list's type
InsertUntyped(etype, kids, index, item) ==
    IF IsTag(item) THEN ListDone(etype, PyInsert(kids, index, item))
    ELSE ListFails("TypeError", etype, kids)

\* TAG_List.insert(index, item): item is a tag or a Python value
ListInsert(etype, kids, index, item) ==
    IF etype = 0 /\ ~IsTag(item) THEN ListFails("TypeError", etype, kids)
    ELSE LET type == IF etype = 0 THEN item.id ELSE etype
         IN  IF item.id = type THEN ListDone(type, PyInsert(kids, index, item))
             ELSE IF IsTag(item) THEN ListFails("TypeError", type, kids)
             ELSE IF type \in {ID_List, ID_Compound} THEN ListFails("TypeError", type, kids)
             ELSE IF ~Validate(type, item) THEN ListFails("TypeError", type, kids)
             ELSE ListDone(type, PyInsert(kids, index, FromValue(type, NoName, item)))

\* TAG_List.extend(items): the items are inserted one by one at the end; an
\* item that raises leaves those before it in the list
RECURSIVE ListExtend(_, _, _)
ListExtend(etype, kids, items) ==
    IF items = <<>> THEN ListDone(etype, kids)
    ELSE LET r == ListInsert(etype, kids, Len(kids), Head(items))
         IN  IF ~r.ok THEN r ELSE ListExtend(r.etype, r.kids, Tail(items))

\* TAG_List.__setitem__(key, value) for a key >= 0
ListSetItem(etype, kids, key, value) ==
    IF key >= Len(kids) THEN ListFails("IndexError", etype, kids)
    ELSE LET r == SetValue(kids, key + 1, value)
         IN  [ok |-> r.ok, err |-> r.err, etype |-> etype, kids |-> r.kids]

\* TAG_List.__delitem__(key) for an int key >= 0
ListDelItem(etype, kids, key) ==
    IF key >= Len(kids) THEN ListFails("IndexError", etype, kids)
    ELSE ListDone(etype, RemoveAt(kids, key + 1))

\* TAG_List.clear()
ListClear(etype, kids) == ListDone(etype, <<>>)

(***************************************************************************)
(* TAG_Compound: the operations on __tags (kids).  A result is             *)
(* [ok, err, kids]: a call that raises leaves what it had done before.     *)
(***************************************************************************)
\* TAG_Compound.__setitem__(key, value)
CompoundSetItem(kids, key, value) ==
    LET k == IndexOfName(kids, key)
    IN  IF k = 0 THEN Fails("IndexError", kids) ELSE SetValue(kids, k, value)

\* TAG_Compound.__delitem__(key)
CompoundDelItem(kids, key) ==
    LET k == IndexOfName(kids, key)
    IN  IF k = 0 THEN Fails("IndexError", kids)
        ELSE IF RemoveRaises(kids, k) THEN Fails("NameError", kids)
        ELSE Done(RemoveAt(kids, k))

\* TAG_Compound.clear()
CompoundClear(kids) == Done(<<>>)

RECURSIVE CompoundMerge(_, _, _, _)
\* TAG_Compound.merge, the body of its loop for one tag of the source
MergeTag(kids, tag, mode, recursive) ==
    LET k == IndexOfName(kids, tag.name)
    IN  IF k = 0
        THEN IF mode # "update" THEN CompoundAdd(kids, tag, FALSE) ELSE Done(kids)
        ELSE IF recursive /\ tag.id = ID_Compound /\ kids[k].id = ID_Compound
        THEN LET r == CompoundMerge(kids[k].kids, tag.kids, mode, TRUE)
             IN  [ok |-> r.ok, err |-> r.err, kids |-> [kids EXCEPT ![k].kids = r.kids]]
        ELSE IF mode = "keep" THEN Done(kids)
        ELSE IF mode = "replace" THEN CompoundAdd(kids, tag, TRUE)
        ELSE IF tag.id # kids[k].id THEN Fails("TypeError", kids)
        ELSE IF tag.id = ID_Compound THEN Done([kids EXCEPT ![k].kids = tag.kids])
        ELSE IF tag.id = ID_List
        THEN LET values == [i \in 1..Len(tag.kids) |-> ValueOf(tag.kids[i])]
                 r == ListExtend(kids[k].etype, <<>>, values)
             IN  [ok |-> r.ok, err |-> r.err,
                  kids |-> [kids EXCEPT ![k].etype = r.etype, ![k].kids = r.kids]]
        ELSE SetValue(kids, k, ValueOf(tag))

\* TAG_Compound.merge(source, mode, recursive) for a Compound source
CompoundMerge(kids, source, mode, recursive) ==
    IF source = <<>> THEN Done(kids)
    ELSE LET r == MergeTag(kids, Head(source), mode, recursive)
         IN  IF ~r.ok THEN r ELSE CompoundMerge(r.kids, Tail(source), mode, recursive)

(***************************************************************************)
(* Queries: contains and ==.  A template is a Python value: a list holds   *)
(* its items in kids, a dict its values in kids, each under its key in     *)
(* name.  Two tags given to == are two objects (self is other is false).   *)
(***************************************************************************)
PyDict == 5

PyNone == 6

\* a Python list of the items
ListValue(items) == Tag(0, NoName, 0, <<>>, BEmpty, items, PyList)

\* a Python dict of the items
DictValue(items) == Tag(0, NoName, 0, <<>>, BEmpty, items, PyDict)

\* the item key: value of a dict
Item(key, value) == [value EXCEPT !.name = key]

\* None
NoneValue == Tag(0, NoName, 0, <<>>, BEmpty, <<>>, PyNone)

RECURSIVE TagContains(_, _)
\* the loop of TAG_List.contains from the i-th item of the array on: used_i
\* and used_j are the items matched and the elements they took
RECURSIVE ListMatch(_, _, _, _, _)
ListMatch(list, items, i, used_i, used_j) ==
    IF i > Len(items) THEN Len(used_i) = Len(items)
    ELSE LET Match(j) == IF list.etype \in {ID_Compound, ID_List}
                         THEN TagContains(list.kids[j], items[i])
                         ELSE ValueOf(list.kids[j]) = items[i]
             free == {j \in 1..Len(list.kids) : j \notin used_j /\ Match(j)}
             Take(j) == ListMatch(list, items, i + 1, Append(used_i, i), used_j \cup {j})
         IN  IF (\E k \in 1..Len(used_i) : used_i[k] = i) \/ free = {}
             THEN ListMatch(list, items, i + 1, used_i, used_j)
             ELSE Take(CHOOSE j \in free : \A k \in free : j <= k)

\* TAG_Compound.contains(tags) on the Compound tag
CompoundContains(tag, tags) ==
    /\ tags.id = 0
    /\ tags.etype = PyDict
    /\ \A i \in 1..Len(tags.kids) :
          LET k == IndexOfName(tag.kids, tags.kids[i].name)
              value == Item(NoName, tags.kids[i])
          IN  IF k # 0 /\ value = NoneValue THEN TRUE
              ELSE IF k # 0 /\ tag.kids[k].id \in {ID_Compound, ID_List}
              THEN TagContains(tag.kids[k], value)
              ELSE k # 0 /\ ValueOf(tag.kids[k]) = value

\* TAG_List.contains(array) on the List tag
ListContains(tag, array) ==
    /\ array.id = 0
    /\ array.etype = PyList
    /\ ListMatch(tag, array.kids, 1, <<>>, {})

\* tag.contains(value) for a Compound or a List
TagContains(tag, value) ==
    IF tag.id = ID_List THEN ListContains(tag, value) ELSE CompoundContains(tag, value)

\* what == gives: whether it returned, the exception it raised, its value
Returns(value) == [ok |-> TRUE, err |-> "", value |-> value]

RaisesNameError == [ok |-> FALSE, err |-> "NameError", value |-> FALSE]

RECURSIVE TagEq(_, _)
\* for B in other.__tags: if A == B: found = True; break
RECURSIVE EqAny(_, _, _)
EqAny(A, others, j) ==
    LET Compared(r) == IF ~r.ok \/ r.value THEN r ELSE EqAny(A, others, j + 1)
    IN  IF j > Len(others) THEN Returns(FALSE) ELSE Compared(TagEq(A, others[j]))

\* for A in self.__tags: ... if not found: return False
RECURSIVE EqAll(_, _, _)
EqAll(tags, others, i) ==
    LET Found(r) == IF ~r.ok \/ ~r.value THEN r ELSE EqAll(tags, others, i + 1)
    IN  IF i > Len(tags) THEN Returns(TRUE) ELSE Found(EqAny(tags[i], others, 1))

\* a == b: TAG_Compound.__eq__, TAG_List.__eq__, and NBTTag.__eq__ for the
\* other variants, which names TAG_Generic, defined nowhere
TagEq(a, b) ==
    IF b = NoneTag THEN Returns(FALSE)
    ELSE IF EqRaises(a) THEN RaisesNameError
    ELSE IF a.id # b.id THEN Returns(FALSE)
    ELSE IF a.name # b.name THEN Returns(FALSE)
    ELSE IF a.id = ID_List /\ a.etype # b.etype THEN Returns(FALSE)
    ELSE IF Len(a.kids) # Len(b.kids) THEN Returns(FALSE)
    ELSE EqAll(a.kids, b.kids, 1)

(***************************************************************************)
(* Decoding: load(name, fp).  A result is [ok, err, tag, pos]: whether the *)
(* call returned, the exception it raised, the tag, the stream position.   *)
(***************************************************************************)
Loaded(tag, pos) == [ok |-> TRUE, err |-> "", tag |-> tag, pos |-> pos]

Raised(err, pos) == [ok |-> FALSE, err |-> err, tag |-> NoneTag, pos |-> pos]

\* fp.read(n) at position pos: n bytes, or as many as are left; all that is
\* left when n is negative
ReadAt(b, pos, n) == IF n < 0 THEN Sub(b, pos, b.len) ELSE Sub(b, pos, pos + n)

\* TAG_Byte.load .. TAG_Long.load: int.from_bytes of what read returned
\* TAG_Float.load, TAG_Double.load: struct.unpack, which wants all the bytes
NumberLoad(id, name, b, pos) ==
    LET Value(raw) ==
            IF id \in {ID_Float, ID_Double} /\ raw.len < Width(id)
            THEN Raised("struct.error", pos + raw.len)
            ELSE Loaded(TAG_Number(id, name, SInt(raw)), pos + raw.len)
    IN  Value(ReadAt(b, pos, Width(id)))

\* NBTTag_Array.load
ArrayLoad(id, name, b, pos) ==
    LET w == Width(ArrayType(id))
        Elements(n, start, stop) ==
            LET elem(i) == SInt(Sub(b, start + i * w, start + (i + 1) * w))
                idx == {(q - start) \div w :
                            q \in {r \in DOMAIN b.nz : r >= start /\ r < stop}}
            IN  Loaded(TAG_Array(id, name,
                           [len |-> n,
                            nz  |-> [i \in {j \in idx : elem(j) # 0} |-> elem(i)]]),
                       stop)
        Bounds(n, start, left) ==
            Elements(n, start, IF n > left \div w THEN start + left ELSE start + n * w)
        Length(lenraw) ==
            Bounds(Max(SInt(lenraw), 0), pos + lenraw.len,
                   Max(b.len - (pos + lenraw.len), 0))
    IN  Length(ReadAt(b, pos, 4))

\* TAG_String.load: the length is read as a TAG_Short (signed)
StringLoad(name, b, pos) ==
    LET Text(str, stop) ==
            IF str.ok THEN Loaded(TAG_String(name, str.s), stop)
            ELSE Raised("UnicodeDecodeError", stop)
        Raw(lenraw, raw) == Text(Utf8Decode(raw), pos + lenraw.len + raw.len)
        Length(lenraw) == Raw(lenraw, ReadAt(b, pos + lenraw.len, SInt(lenraw)))
    IN  Length(ReadAt(b, pos, 2))

RECURSIVE TagLoad(_, _, _, _)
\* TAG_List.load, the loop: element i of length, read with the list's type
RECURSIVE ListLoop(_, _, _, _, _)
ListLoop(tag, b, pos, i, length) ==
    LET Element(r) ==
            IF ~r.ok THEN r
            ELSE ListLoop([tag EXCEPT !.kids = Append(@, r.tag)], b, r.pos, i + 1, length)
    IN  IF i >= length THEN Loaded(tag, pos)
        ELSE IF tag.etype = 0 THEN Raised("AttributeError", pos)
        ELSE Element(TagLoad(tag.etype, NoName, b, pos))

\* TAG_List.load
ListLoad(name, b, pos) ==
    LET Elements(type_id, length, start) ==
            ListLoop(TAG_List(name, IF IsTagType(type_id) THEN type_id ELSE 0, <<>>),
                     b, start, 0, length)
        Length(idraw, lenraw) ==
            Elements(SInt(idraw), SInt(lenraw), pos + idraw.len + lenraw.len)
        Type(idraw) == Length(idraw, ReadAt(b, pos + idraw.len, 4))
    IN  Type(ReadAt(b, pos, 1))

\* TAG_Compound.load, the loop, with the compound built so far
RECURSIVE CompoundLoop(_, _, _)
CompoundLoop(compound, b, pos) ==
    LET Added(a, stop) ==
            IF ~a.ok THEN Raised(a.err, stop)
            ELSE CompoundLoop([compound EXCEPT !.kids = a.kids], b, stop)
        Loading(r) ==
            IF ~r.ok THEN r
            ELSE Added(CompoundAdd(compound.kids, r.tag, FALSE), r.pos)
        Named(type_id, tag_name, p3) ==
            IF ~tag_name.ok THEN Raised("UnicodeDecodeError", p3)
            ELSE IF ~IsTagType(type_id) THEN Raised("IOError", p3)
            ELSE Loading(TagLoad(type_id, tag_name.s, b, p3))
        Name(type_id, p2, nameraw) ==
            Named(type_id, Utf8Decode(nameraw), p2 + nameraw.len)
        NameLen(type_id, p1, lenraw) ==
            Name(type_id, p1 + lenraw.len, ReadAt(b, p1 + lenraw.len, UInt(lenraw)))
        Type(idraw) ==
            IF UInt(idraw) = 0 THEN Loaded(compound, pos + idraw.len)
            ELSE NameLen(UInt(idraw), pos + idraw.len, ReadAt(b, pos + idraw.len, 2))
    IN  Type(ReadAt(b, pos, 1))

\* TAG_Compound.load
CompoundLoad(name, b, pos) == CompoundLoop(TAG_Compound(name, <<>>), b, pos)

\* tag_type.load(name, fp) for the tag type of the given id
TagLoad(id, name, b, pos) ==
    IF IsNumber(id) THEN NumberLoad(id, name, b, pos)
    ELSE IF IsArray(id) THEN ArrayLoad(id, name, b, pos)
    ELSE IF id = ID_String THEN StringLoad(name, b, pos)
    ELSE IF id = ID_List THEN ListLoad(name, b, pos)
    ELSE CompoundLoad(name, b, pos)

(***************************************************************************)
(* gzip and zlib.  The library's streams are modelled by a frame that      *)
(* shares what the region file relies on: a magic number, a self-delimited *)
(* body from which the data is recovered exactly, long runs of zeros       *)
(* squeezed out, and an error on anything that is not such a frame.  The   *)
(* body is the data's length, the count of its non-zero bytes, and each    *)
(* non-zero byte as (position, value) in ascending order.                  *)
(***************************************************************************)
GzipMagic == <<31, 139>>

ZlibMagic == <<120, 156>>

RECURSIVE FrameEntries(_, _)
FrameEntries(d, ps) ==
    IF ps = {} THEN BEmpty
    ELSE LET p == CHOOSE q \in ps : \A r \in ps : q <= r
         IN  Cat(ToBytes(p, 4), Cat(ToBytes(d.nz[p], 1), FrameEntries(d, ps \ {p})))

\* gzip.compress(data) / gzip.zlib.compress(data), by the magic number
Deflate(magic, d) ==
    Cat(FromSeq(magic),
    Cat(ToBytes(d.len, 4),
    Cat(ToBytes(Cardinality(DOMAIN d.nz), 4), FrameEntries(d, DOMAIN d.nz))))

\* one frame read from position pos of b: [ok, data, pos]
Inflate(magic, b, pos) ==
    LET start == pos + 10
        len   == UInt(Sub(b, pos + 2, pos + 6))
        cnt   == UInt(Sub(b, pos + 6, pos + 10))
        at    == [j \in 0..(cnt - 1) |-> UInt(Sub(b, start + 5 * j, start + 5 * j + 4))]
        val   == [j \in 0..(cnt - 1) |-> At(b, start + 5 * j + 4)]
        bad   == [ok |-> FALSE, data |-> BEmpty, pos |-> pos]
    IN  IF b.len < start \/ \E k \in 1..2 : At(b, pos + k - 1) # magic[k] THEN bad
        ELSE IF (b.len - start) \div 5 < cnt THEN bad
        ELSE IF \E j \in 0..(cnt - 1) :
                   \/ val[j] = 0
                   \/ at[j] >= len
                   \/ j > 0 /\ at[j - 1] >= at[j]
             THEN bad
        ELSE [ok |-> TRUE,
              data |-> [len |-> len,
                        nz |-> [p \in {at[j] : j \in 0..(cnt - 1)} |->
                                   val[CHOOSE j \in 0..(cnt - 1) : at[j] = p]]],
              pos |-> start + 5 * cnt]

\* gzip.zlib.decompress(data): one stream; what follows it is ignored
ZlibDecompress(b) == LET r == Inflate(ZlibMagic, b, 0) IN [ok |-> r.ok, data |-> r.data]

\* gzip.decompress(data): the members one after the other, zero padding
\* skipped between them; b'' decompresses to b''
RECURSIVE GzipMembers(_, _, _)
GzipMembers(b, pos, acc) ==
    LET rest == {q \in DOMAIN b.nz : q >= pos}
    IN  IF rest = {} THEN [ok |-> TRUE, data |-> acc]
        ELSE LET r == Inflate(GzipMagic, b, CHOOSE q \in rest : \A q2 \in rest : q <= q2)
             IN  IF ~r.ok THEN [ok |-> FALSE, data |-> BEmpty]
                 ELSE GzipMembers(b, r.pos, Cat(acc, r.data))

GzipDecompress(b) ==
    IF b.len = 0 THEN [ok |-> TRUE, data |-> BEmpty]
    ELSE LET r == Inflate(GzipMagic, b, 0)
         IN  IF ~r.ok THEN [ok |-> FALSE, data |-> BEmpty]
             ELSE GzipMembers(b, r.pos, r.data)

(***************************************************************************)
(* Files: a file is a byte string; each handler seeks before it reads or   *)
(* writes, so the position is threaded through the handler, not kept.      *)
(***************************************************************************)
\* seek(pos); write(d): overwrites, and extends the file when it must
FWrite(f, pos, d) ==
    [len |-> Max(f.len, pos + d.len),
     nz  |-> [p \in {q \in DOMAIN f.nz : q < pos \/ q >= pos + d.len}
                    \cup {q + pos : q \in DOMAIN d.nz} |->
                 IF p >= pos /\ p < pos + d.len THEN d.nz[p - pos] ELSE f.nz[p]]]

\* truncate() at position pos
FTruncate(f, pos) ==
    [len |-> pos, nz |-> [p \in {q \in DOMAIN f.nz : q < pos} |-> f.nz[p]]]

(***************************************************************************)
(* RegionFile                                                              *)
(***************************************************************************)
VARIABLES
    locations,   \* self.__locations[x][z]
    timestamps,  \* self.__timestamps[x][z]
    chunks,      \* self.__chunks[x][z], NoneTag for None
    file,        \* the bytes of the file behind self.__fp
    writes,      \* the number of calls that have rewritten the file so far
    last,        \* the last such call: [op, slot, old, new, chunk]
    root,        \* the Compound a program works on
    stream,      \* the bytes the last payload() call returned
    saved,       \* the Compound that call was made on
    fed,         \* the bytes last given to TAG_Compound.load
    loaded,      \* what that load gave: [ok, err, tag, pos]
    did,         \* the last call on root: [op, ok, err], and n, the calls so far
    asked,       \* the argument of the last contains or == on root
    answer,      \* what that call returned
    opened,      \* the object that holds the file: [class, mode, compress]
    fp,          \* self.__fp: [pos, closed], the position and whether it is closed
    scope        \* where the caller is: before a with statement on the object
                 \* ("new"), in its block ("with"), past it ("left"), or past
                 \* the destruction of the object ("gone")

regionVars == <<locations, timestamps, chunks, file, writes, last>>

tagVars == <<root, stream, saved, fed, loaded, did, asked, answer>>

handleVars == <<opened, fp, scope>>

SECTOR == 4096

\* the slots [x][z] of the three tables
Grid == (0..31) \X (0..31)

\* The three tables are kept as functions on the slots that some call of the
\* model addresses.  Every other entry is 0 (None) for ever: __init__ sets it
\* so, no call addresses it, and the loop of __resize_chunk changes only
\* entries whose offset is positive.
Entry(table, slot) == IF slot \in DOMAIN table THEN table[slot] ELSE 0

\* the header index of a slot: (x % 32) + (z % 32) * 32
HeaderIndex(slot) == (slot[1] % 32) + (slot[2] % 32) * 32

\* the place of a slot in the loops "for z in range(32): for x in range(32)"
ScanIndex(slot) == slot[2] * 32 + slot[1]

\* RegionFile.__extract_loc
ExtractLoc(locs, slot) ==
    [offset |-> locs[slot] \div 256, size |-> locs[slot] % 256]

\* RegionFile.__load_header: 1024 locations, then 1024 timestamps, read one
\* after the other from position 0
LoadHeader(f) ==
    [locations  |-> [slot \in Grid |->
                        UInt(ReadAt(f, 4 * ScanIndex(slot), 4))],
     timestamps |-> [slot \in Grid |->
                        UInt(ReadAt(f, 4 * 1024 + 4 * ScanIndex(slot), 4))]]

\* RegionFile.__init_chunk: seek(0, 2); int(tell() / 4096) << 8
InitChunk(locs, f, slot) == [locs EXCEPT ![slot] = (f.len \div SECTOR) * 256]

\* the loop of __resize_chunk over the slots in todo, in scan order: a slot
\* whose entry changed is written where the loop stands, 4 bytes per slot
\* passed (written or skipped with seek(4, 1))
RECURSIVE ScanWrite(_, _, _)
ScanWrite(f, locs, todo) ==
    IF todo = {} THEN f
    ELSE LET slot == CHOOSE a \in todo : \A b \in todo : ScanIndex(a) <= ScanIndex(b)
         IN  ScanWrite(FWrite(f, 4 * ScanIndex(slot), ToBytes(locs[slot], 4)),
                       locs, todo \ {slot})

\* RegionFile.__resize_chunk(x, z, size) at time now: [locations, timestamps, file]
ResizeChunk(locs, stamps, f, slot, size, now) ==
    LET loc    == ExtractLoc(locs, slot)
        locs1  == [locs EXCEPT ![slot] = IF size > 0 THEN loc.offset * 256 + size ELSE 0]
        stamps1 == [stamps EXCEPT ![slot] = now]
        at     == 4 * HeaderIndex(slot)
        f1     == FWrite(f, at, ToBytes(locs1[slot], 4))
        f2     == FWrite(f1, at + 4 + 4096, ToBytes(stamps1[slot], 4))
        size_change == size - loc.size
        moved  == {a \in DOMAIN locs1 : ExtractLoc(locs1, a).offset > loc.offset}
        locs2  == [a \in DOMAIN locs1 |->
                      IF a \in moved
                      THEN (ExtractLoc(locs1, a).offset + size_change) * 256
                           + ExtractLoc(locs1, a).size
                      ELSE locs1[a]]
    IN  [locations |-> locs2, timestamps |-> stamps1, file |-> ScanWrite(f2, locs2, moved)]

\* the tail of save_chunk and delete_chunk: what follows the old blob is read,
\* the new blob (none when deleting) and then that tail are written at the
\* blob's offset, and the file is truncated there
Splice(f, offset, old_size, blob) ==
    LET after == ReadAt(f, offset + old_size, -1)
        f1    == FWrite(f, offset, blob)
        f2    == FWrite(f1, offset + blob.len, after)
    IN  FTruncate(f2, offset + blob.len + after.len)

\* the compression id of save_chunk's selector, 0 when it raises ValueError
CompressionId(compression) ==
    CASE compression = "gzip" -> 1
      [] compression = "zlib" -> 2
      [] compression = "none" -> 3
      [] OTHER -> 0

\* save_chunk: the blob of a chunk: length, compression id, data, zero
\* padding to a multiple of 4096 bytes
ChunkBlob(chunk, compression) ==
    LET raw  == Payload(TAG_Compound(<<>>, <<chunk>>))
        data == CASE compression = "gzip" -> Deflate(GzipMagic, raw)
                  [] compression = "zlib" -> Deflate(ZlibMagic, raw)
                  [] OTHER -> raw
        body == Cat(ToBytes(data.len + 1, 4),
                Cat(ToBytes(CompressionId(compression), 1), data))
    IN  IF body.len % SECTOR # 0
        THEN Cat(body, Zeros(SECTOR - (body.len % SECTOR)))
        ELSE body

\* load_chunk(x, z) on a present slot: [ok, err, tag]
ReadChunk(locs, f, slot) ==
    LET at == SECTOR * ExtractLoc(locs, slot).offset
        Found(chunk, k) ==
            IF k = 0 THEN [ok |-> FALSE, err |-> "IndexError", tag |-> NoneTag]
            ELSE [ok |-> TRUE, err |-> "", tag |-> ValueOf(chunk.tag.kids[k])]
        Chunk(chunk) ==
            IF ~chunk.ok THEN [ok |-> FALSE, err |-> chunk.err, tag |-> NoneTag]
            ELSE Found(chunk, IndexOfName(chunk.tag.kids, <<>>))
        Plain(plain) ==
            IF ~plain.ok THEN [ok |-> FALSE, err |-> "zlib.error", tag |-> NoneTag]
            ELSE Chunk(CompoundLoad(NoName, plain.data, 0))
        Data(compression, data) ==
            Plain(IF compression = 1 THEN GzipDecompress(data)
                  ELSE IF compression = 2 THEN ZlibDecompress(data)
                  ELSE [ok |-> TRUE, data |-> data])
        Header(length_bytes, idraw) ==
            Data(UInt(idraw),
                 ReadAt(f, at + length_bytes.len + idraw.len, UInt(length_bytes) - 1))
        Length(length_bytes) == Header(length_bytes, ReadAt(f, at + length_bytes.len, 1))
    IN  Length(ReadAt(f, at, 4))

(***************************************************************************)
(* The calls the model makes: the slots addressed, the chunks cached, the  *)
(* compression selectors, the clock readings.                              *)
(***************************************************************************)
\* the file is rewritten at most this many times
MaxWrites == 3

\* the first slot of the header and its last one
Slots == {<<0, 0>>, <<31, 31>>}

\* Compound('') holding a Byte_Array of 4096 zeros: two sectors uncompressed,
\* one compressed
ChunkPlain == TAG_Compound(<<>>, <<TAG_Array(ID_Byte_Array, <<97>>, Zeros(4096))>>)

\* Compound('') holding Int('\u00e9', 7): a name of one character, two bytes
ChunkAccent == TAG_Compound(<<>>, <<TAG_Number(ID_Int, <<233>>, 7)>>)

\* Compound('') holding a Byte_Array of 255 * 4096 zeros: 256 sectors
\* uncompressed, one compressed
ChunkBig == TAG_Compound(<<>>, <<TAG_Array(ID_Byte_Array, <<97>>, Zeros(255 * 4096))>>)

Chunks == {ChunkPlain, ChunkAccent, ChunkBig}

Compressions == {"gzip", "zlib", "none"}

\* int(time.time())
Times == {1793833579}

\* what a call that rewrites the file leaves in last: the call, the slot, its
\* size in sectors before and after, the chunk saved
Call(op, slot, old, new, chunk) ==
    [op |-> op, slot |-> slot, old |-> old, new |-> new, chunk |-> chunk]

\* RegionFile.set_chunk(x, z, chunk)
SetChunk(slot, chunk) ==
    /\ chunks' = [chunks EXCEPT ![slot] = chunk]
    /\ UNCHANGED <<locations, timestamps, file, writes, last, tagVars, handleVars>>

\* RegionFile.unload_chunk(x, z)
UnloadChunk(slot) ==
    /\ chunks' = [chunks EXCEPT ![slot] = NoneTag]
    /\ UNCHANGED <<locations, timestamps, file, writes, last, tagVars, handleVars>>

\* RegionFile.load_chunk(x, z): None for an absent slot; the chunk is cached
\* unless reading it raises
LoadChunk(slot) ==
    /\ locations[slot] # 0
    /\ \E r \in {ReadChunk(locations, file, slot)} :
           chunks' = IF r.ok THEN [chunks EXCEPT ![slot] = r.tag] ELSE chunks
    /\ UNCHANGED <<locations, timestamps, file, writes, last, tagVars, handleVars>>

\* save_chunk raises before it touches the file: chunk.add of a value that
\* is no tag (TypeError), an unknown compression (ValueError)
SaveRaises(chunk, compression) == chunk.id = 0 \/ CompressionId(compression) = 0

\* RegionFile.save_chunk(x, z, compression), the clock reading now; it
\* returns at once when no chunk is cached
SaveChunk(slot, compression, now) ==
    /\ chunks[slot] # NoneTag
    /\ ~SaveRaises(chunks[slot], compression)
    /\ writes < MaxWrites
    /\ LET blob  == ChunkBlob(chunks[slot], compression)
           locs1 == IF locations[slot] = 0
                    THEN InitChunk(locations, file, slot)
                    ELSE locations
           loc   == ExtractLoc(locs1, slot)
           r     == ResizeChunk(locs1, timestamps, file, slot, blob.len \div SECTOR, now)
       IN  /\ locations' = r.locations
           /\ timestamps' = r.timestamps
           /\ file' = Splice(r.file, loc.offset * SECTOR, loc.size * SECTOR, blob)
           /\ last' = Call("save", slot, loc.size, blob.len \div SECTOR, chunks[slot])
    /\ writes' = writes + 1
    /\ UNCHANGED <<chunks, tagVars, handleVars>>

\* RegionFile.delete_chunk(x, z), the clock reading now; it returns at once
\* when the slot is absent
DeleteChunk(slot, now) ==
    /\ locations[slot] # 0
    /\ writes < MaxWrites
    /\ LET loc == ExtractLoc(locations, slot)
           r   == ResizeChunk(locations, timestamps, file, slot, 0, now)
       IN  /\ locations' = r.locations
           /\ timestamps' = r.timestamps
           /\ file' = Splice(r.file, loc.offset * SECTOR, loc.size * SECTOR, BEmpty)
           /\ last' = Call("delete", slot, loc.size, 0, NoneTag)
    /\ writes' = writes + 1
    /\ UNCHANGED <<chunks, tagVars, handleVars>>

\* no load yet
NoLoad == Raised("", 0)

\* a call on root and how it ended, the n-th call
Did(op, ok, err, n) == [op |-> op, ok |-> ok, err |-> err, n |-> n]

\* no tag is worked on
NoTags ==
    /\ root = NoneTag
    /\ stream = BEmpty
    /\ saved = NoneTag
    /\ fed = BEmpty
    /\ loaded = NoLoad
    /\ did = Did("", TRUE, "", 0)
    /\ asked = NoneTag
    /\ answer = FALSE

\* RegionFile.__init__ leaves self.__fp open; nothing has entered a with
\* statement yet.  (The handlers of RegionFile seek before every access, so
\* the position is not kept for it.)
RegionOpened ==
    /\ opened = [class |-> "RegionFile", mode |-> "", compress |-> FALSE]
    /\ fp = [pos |-> 0, closed |-> FALSE]
    /\ scope = "new"

\* RegionFile.__init__(path) on a path that does not exist
NewFile ==
    /\ locations = [slot \in Slots |-> 0]
    /\ timestamps = [slot \in Slots |-> 0]
    /\ chunks = [slot \in Slots |-> NoneTag]
    /\ file = Zeros(8192)
    /\ writes = 0
    /\ last = Call("open", <<0, 0>>, 0, 0, NoneTag)
    /\ RegionOpened

Init == NewFile /\ NoTags

Next ==
    \/ \E slot \in Slots, chunk \in Chunks : SetChunk(slot, chunk)
    \/ \E slot \in Slots : UnloadChunk(slot)
    \/ \E slot \in Slots : LoadChunk(slot)
    \/ \E slot \in Slots, compression \in Compressions, now \in Times :
          SaveChunk(slot, compression, now)
    \/ \E slot \in Slots, now \in Times : DeleteChunk(slot, now)

vars == <<locations, timestamps, chunks, file, writes, last,
         root, stream, saved, fed, loaded, did, asked, answer, opened, fp, scope>>

Spec == Init /\ [][Next]_vars

(***************************************************************************)
(* Properties of the region file                                           *)
(***************************************************************************)
\* the slots whose entry is not 0
Present(locs) == {a \in DOMAIN locs : locs[a] # 0}

\* the sectors [offset, offset + size) an entry names
SectorsOf(locs, a) ==
    LET loc == ExtractLoc(locs, a) IN loc.offset..(loc.offset + loc.size - 1)

\* the sum of the sizes of the slots in S
RECURSIVE SumSizes(_, _)
SumSizes(locs, S) ==
    IF S = {} THEN 0
    ELSE LET a == CHOOSE b \in S : TRUE
         IN  ExtractLoc(locs, a).size + SumSizes(locs, S \ {a})

\* a | b on non-negative integers
RECURSIVE BitOr(_, _)
BitOr(a, b) ==
    IF a = 0 THEN b
    ELSE IF b = 0 THEN a
    ELSE (IF a % 2 = 1 \/ b % 2 = 1 THEN 1 ELSE 0) + 2 * BitOr(a \div 2, b \div 2)

\* C1: from a new file, after any set_chunk, save_chunk and delete_chunk
\* calls, every present slot has offset >= 2 and size >= 1, and the sector
\* ranges of two distinct present slots are disjoint.
LayoutWellFormed ==
    /\ \A a \in Present(locations) :
          ExtractLoc(locations, a).offset >= 2 /\ ExtractLoc(locations, a).size >= 1
    /\ \A a, b \in Present(locations) :
          a # b => SectorsOf(locations, a) \cap SectorsOf(locations, b) = {}

\* C2: save_chunk(x, z, k) immediately followed by load_chunk(x, z) returns a
\* tag equal to the chunk that was cached at the slot, whatever calls came
\* before.  (No call between the save and a later one changes the file or
\* the locations, so the load is decided by the state the save left.)
SaveThenLoad ==
    last.op = "save" =>
        LET r == ReadChunk(locations, file, last.slot)
        IN  r.ok /\ r.tag = last.chunk

\* C3: from a new file, after every save_chunk or delete_chunk the length of
\* the file is 4096 * (2 + the sum of the sizes of the present slots).
FileLengthMatches ==
    last.op \in {"save", "delete"} =>
        file.len = SECTOR * (2 + SumSizes(locations, Present(locations)))

\* C4: when save_chunk or delete_chunk takes slot s at offset o from old to
\* new sectors, then in memory and in the file's locations table s has the
\* entry (o << 8) | new (0 when new = 0), every other slot whose offset was
\* greater than o has its offset changed by new - old and its size kept, and
\* every other entry is unchanged.
ResizeFrame ==
    [][writes' = writes + 1 =>
          LET s   == last'.slot
              o   == IF locations[s] = 0 THEN file.len \div SECTOR
                     ELSE ExtractLoc(locations, s).offset
              old == last'.old
              new == last'.new
          IN  /\ locations'[s] = IF new = 0 THEN 0 ELSE BitOr(o * 256, new)
              /\ \A a \in DOMAIN locations \ {s} :
                    locations'[a] = IF ExtractLoc(locations, a).offset > o
                                    THEN locations[a] + (new - old) * 256
                                    ELSE locations[a]
              /\ \A a \in DOMAIN locations :
                    UInt(ReadAt(file', 4 * HeaderIndex(a), 4)) = locations'[a]
              /\ \A p \in DOMAIN file'.nz :
                    p < SECTOR => \E a \in DOMAIN locations : p \div 4 = HeaderIndex(a)
      ]_vars

\* C5: after any save_chunk and delete_chunk calls, reading the header back
\* from the file gives the tables held in memory: entry i = x + 32 * z of
\* the first 4096 bytes is the slot's location, entry i of the next 4096
\* bytes is its timestamp, and nothing was written past the header by a
\* header write (the file ends where the blobs end).
HeaderReadBack ==
    LET header == LoadHeader(file)
    IN  \A slot \in Grid :
           /\ header.locations[slot] = Entry(locations, slot)
           /\ header.timestamps[slot] = Entry(timestamps, slot)

\* the bytes of the sectors an entry names
BlobOf(locs, f, a) ==
    LET loc == ExtractLoc(locs, a)
    IN  Sub(f, loc.offset * SECTOR, (loc.offset + loc.size) * SECTOR)

\* C20: save_chunk or delete_chunk on slot s leaves the blob of every other
\* present slot t as it was, wherever it moves it: t stays present and the
\* bytes at its new offset are the bytes that were at its old offset, for
\* every s, (31, 31) included, and for a blob at sector 2 as for any other
OtherBlobsKept ==
    [][writes' = writes + 1 =>
          \A t \in Present(locations) \ {last'.slot} :
             /\ locations'[t] # 0
             /\ BlobOf(locations', file', t) = BlobOf(locations, file, t)]_vars

(***************************************************************************)
(* Programs on tags: the calls made on a Compound (root) and on the Lists  *)
(* it holds, the tags and values they are given.                           *)
(***************************************************************************)
\* a program makes at most this many calls
MaxCalls == 3

\* a List grown by a program on tags is never longer than this
MaxLen == 2

NameA == <<97>>

NameB == <<98>>

NameC == <<99>>

NameL == <<108>>

Keys == {NameA, NameB, NameC, NameL}

\* the tags given to add
AddTags ==
    {TAG_Number(ID_Int, NameA, 1),
     TAG_Number(ID_Byte, NameA, 2),
     TAG_Compound(NameC, <<TAG_Number(ID_Int, NameA, 1)>>),
     TAG_List(NameL, ID_Int, <<TAG_Number(ID_Int, NoName, 1)>>),
     TAG_List(NameL, 0, <<>>)}

\* the tags of the Compounds given to merge
Sources ==
    {<<TAG_Number(ID_Int, NameA, 3),
       TAG_Compound(NameC, <<TAG_Number(ID_Byte, NameA, 2), TAG_Number(ID_Int, NameB, 4)>>)>>,
     <<TAG_List(NameL, ID_Byte, <<TAG_Number(ID_Byte, NoName, 5), TAG_Number(ID_Byte, NoName, 6)>>),
       TAG_Number(ID_Byte, NameA, 2)>>,
     <<TAG_List(NameL, ID_String, <<TAG_String(NoName, <<120>>)>>)>>,
     <<TAG_List(NameL, ID_Compound, <<TAG_Compound(NoName, <<>>)>>)>>,
     <<TAG_Compound(NameC, <<>>)>>}

Modes == {"keep", "merge", "replace", "update"}

\* the Python values given to item assignment and to the Lists
Values == {IntValue(5), IntValue(300), StrValue(<<120>>)}

\* the tags given to the Lists
Elements ==
    {TAG_Number(ID_Int, NoName, 7), TAG_Number(ID_Byte, NoName, 7), TAG_Compound(NoName, <<>>)}

\* the lists given to extend
Extensions ==
    {<<IntValue(5), StrValue(<<120>>)>>,
     <<TAG_Number(ID_Byte, NoName, 7), TAG_Number(ID_Int, NoName, 7)>>}

\* the streams given to load: one that names 'a' twice in a compound, one
\* holding a List of Bytes, one holding a List of element type 0 and length 1
Streams ==
    {FromSeq(<<3, 0, 1, 97, 0, 0, 0, 1, 1, 0, 1, 97, 2, 0>>),
     FromSeq(<<9, 0, 1, 108, 1, 0, 0, 0, 2, 5, 6, 0>>),
     FromSeq(<<9, 0, 1, 108, 0, 0, 0, 0, 1, 0>>)}

\* the call op on root gave the result r
OnRoot(op, r) ==
    /\ did.n < MaxCalls
    /\ root' = [root EXCEPT !.kids = r.kids]
    /\ did' = Did(op, r.ok, r.err, did.n + 1)
    /\ UNCHANGED <<stream, saved, fed, loaded, asked, answer, regionVars, handleVars>>

\* the call op on the List root[key] gave the result r
OnList(op, key, r) ==
    /\ did.n < MaxCalls
    /\ root' = [root EXCEPT !.kids[IndexOfName(root.kids, key)].etype = r.etype,
                            !.kids[IndexOfName(root.kids, key)].kids = r.kids]
    /\ did' = Did(op, r.ok, r.err, did.n + 1)
    /\ UNCHANGED <<stream, saved, fed, loaded, asked, answer, regionVars, handleVars>>

\* root[key] is a List
HasList(key) ==
    /\ IndexOfName(root.kids, key) # 0
    /\ root.kids[IndexOfName(root.kids, key)].id = ID_List

TheList(key) == root.kids[IndexOfName(root.kids, key)]

\* root.add(tag, replace)
Add(tag, replace) == OnRoot("add", CompoundAdd(root.kids, tag, replace))

\* root.merge(source, mode, recursive)
Merge(source, mode, recursive) ==
    OnRoot("merge", CompoundMerge(root.kids, source, mode, recursive))

\* root[key] = value
SetItem(key, value) == OnRoot("setitem", CompoundSetItem(root.kids, key, value))

\* del root[key]
DelItem(key) == OnRoot("delitem", CompoundDelItem(root.kids, key))

\* root.clear()
Clear == OnRoot("clear", CompoundClear(root.kids))

\* root[key].append(item)
AppendTo(key, item) ==
    /\ HasList(key)
    /\ Len(TheList(key).kids) < MaxLen
    /\ OnList("append", key,
              ListInsert(TheList(key).etype, TheList(key).kids, Len(TheList(key).kids), item))

\* root[key].prepend(item)
PrependTo(key, item) ==
    /\ HasList(key)
    /\ Len(TheList(key).kids) < MaxLen
    /\ OnList("prepend", key, ListInsert(TheList(key).etype, TheList(key).kids, 0, item))

\* root[key].insert(index, item)
InsertIn(key, index, item) ==
    /\ HasList(key)
    /\ Len(TheList(key).kids) < MaxLen
    /\ OnList("insert", key, ListInsert(TheList(key).etype, TheList(key).kids, index, item))

\* root[key].extend(items)
ExtendWith(key, items) ==
    /\ HasList(key)
    /\ Len(TheList(key).kids) + Len(items) <= MaxLen
    /\ OnList("extend", key, ListExtend(TheList(key).etype, TheList(key).kids, items))

\* root[key][index] = value
SetElement(key, index, value) ==
    /\ HasList(key)
    /\ OnList("list setitem", key,
              ListSetItem(TheList(key).etype, TheList(key).kids, index, value))

\* del root[key][index]
DelElement(key, index) ==
    /\ HasList(key)
    /\ OnList("list delitem", key, ListDelItem(TheList(key).etype, TheList(key).kids, index))

\* root[key].clear()
ClearList(key) ==
    /\ HasList(key)
    /\ OnList("list clear", key, ListClear(TheList(key).etype, TheList(key).kids))

\* root = TAG_Compound.load(None, io.BytesIO(b)); root is kept when load raises
Load(b) ==
    /\ did.n < MaxCalls
    /\ fed' = b
    /\ loaded' = CompoundLoad(NoName, b, 0)
    /\ root' = IF loaded'.ok THEN loaded'.tag ELSE root
    /\ did' = Did("load", loaded'.ok, loaded'.err, did.n + 1)
    /\ UNCHANGED <<stream, saved, asked, answer, regionVars, handleVars>>

\* root.payload()
Save ==
    /\ did.n < MaxCalls
    /\ IF PayloadRaises(root)
       THEN /\ did' = Did("payload", FALSE, "TypeError", did.n + 1)
            /\ UNCHANGED <<stream, saved>>
       ELSE /\ stream' = Payload(root)
            /\ saved' = root
            /\ did' = Did("payload", TRUE, "", did.n + 1)
    /\ UNCHANGED <<root, fed, loaded, asked, answer, regionVars, handleVars>>

\* a program starts on TAG_Compound('')
TagInit ==
    /\ NewFile
    /\ root = TAG_Compound(<<>>, <<>>)
    /\ stream = BEmpty
    /\ saved = NoneTag
    /\ fed = BEmpty
    /\ loaded = NoLoad
    /\ did = Did("", TRUE, "", 0)
    /\ asked = NoneTag
    /\ answer = FALSE

TagNext ==
    \/ \E tag \in AddTags, replace \in BOOLEAN : Add(tag, replace)
    \/ \E source \in Sources, mode \in Modes, recursive \in BOOLEAN :
          Merge(source, mode, recursive)
    \/ \E key \in Keys, value \in Values : SetItem(key, value)
    \/ \E key \in Keys : DelItem(key)
    \/ Clear
    \/ \E item \in Values \cup Elements : AppendTo(NameL, item)
    \/ \E item \in Values \cup Elements : PrependTo(NameL, item)
    \/ \E index \in 0..MaxLen, item \in Values \cup Elements : InsertIn(NameL, index, item)
    \/ \E items \in Extensions : ExtendWith(NameL, items)
    \/ \E index \in 0..MaxLen, value \in Values : SetElement(NameL, index, value)
    \/ \E index \in 0..MaxLen : DelElement(NameL, index)
    \/ ClearList(NameL)
    \/ \E b \in Streams : Load(b)

TagSpec == TagInit /\ [][TagNext]_vars

(***************************************************************************)
(* Properties of the containers                                            *)
(***************************************************************************)
\* in t and in every tag below it, the children of a Compound have pairwise
\* distinct names
RECURSIVE NamesDistinct(_)
NamesDistinct(t) ==
    /\ t.id = ID_Compound =>
           \A i, j \in 1..Len(t.kids) : i # j => t.kids[i].name # t.kids[j].name
    /\ \A i \in 1..Len(t.kids) : NamesDistinct(t.kids[i])

\* the stream of Streams that names 'a' twice in one compound
RepeatedName == FromSeq(<<3, 0, 1, 97, 0, 0, 0, 1, 1, 0, 1, 97, 2, 0>>)

\* C9: after any sequence of add (replace or not), merge (any mode), item
\* assignment, item deletion, clear and load, every Compound of the tree has
\* pairwise distinct child names, and so has every Compound that load
\* returns: a stream that repeats a name yields no Compound at all
UniqueNames ==
    /\ NamesDistinct(root)
    /\ loaded.ok => NamesDistinct(loaded.tag)
    /\ fed = RepeatedName /\ did.op = "load" => ~loaded.ok

\* a Compound that already holds tags was asked to load the stream that
\* repeats a name, and add was asked for a name that is taken
UniqueNamesWitness ==
    /\ did.op = "load"
    /\ fed = RepeatedName
    /\ loaded.err = "ValueError"
    /\ Len(root.kids) = 2

\* in t and in every tag below it, the elements of a List have the List's
\* element type
RECURSIVE ElementsTyped(_)
ElementsTyped(t) ==
    /\ t.id = ID_List => \A i \in 1..Len(t.kids) : t.kids[i].id = t.etype
    /\ \A i \in 1..Len(t.kids) : ElementsTyped(t.kids[i])

\* the steps after which root['l'] is the List object it was before: the
\* calls on the List, item assignment, and merge in a mode that overwrites
\* tags instead of replacing them
SameList ==
    /\ HasList(NameL)
    /\ \/ did'.op \in {"append", "prepend", "insert", "extend", "list setitem",
                       "list delitem", "list clear", "setitem"}
       \/ \E source \in Sources, mode \in Modes \ {"replace"}, recursive \in BOOLEAN :
             Merge(source, mode, recursive)

\* C10: every element of every List has the List's element type, and a step
\* of append, prepend, insert, extend, item assignment, item deletion, clear
\* or merge-overwrite leaves the element type of a List that has one as it is
ListTypeFixed ==
    [][/\ ElementsTyped(root')
       /\ SameList /\ TheList(NameL).etype # 0 =>
              /\ HasList(NameL)'
              /\ TheList(NameL)'.etype = TheList(NameL).etype]_vars

\* merge has overwritten a List of Ints from a List of Bytes: the List took
\* the values as Ints
ListTypeFixedWitness ==
    /\ did.op = "merge"
    /\ did.ok
    /\ HasList(NameL)
    /\ TheList(NameL).etype = ID_Int
    /\ TheList(NameL).kids = <<TAG_Number(ID_Int, NoName, 5), TAG_Number(ID_Int, NoName, 6)>>

\* C11: a call of add, merge, insert, append, prepend, extend or an item
\* assignment that raises TypeError (a value out of range or of the wrong
\* type, a tag of the wrong variant) or ValueError (a name that is taken)
\* leaves the whole tree as it was before the call
FailureLeavesTree ==
    [][(/\ did'.n = did.n + 1
        /\ did'.op \in {"add", "merge", "insert", "append", "prepend", "extend",
                        "setitem", "list setitem"}
        /\ ~did'.ok
        /\ did'.err \in {"TypeError", "ValueError"}) => root' = root]_vars

\* C12: add(tag, replace=True) returns; when a child has the tag's name, at
\* whatever position and among whatever other children, the tag takes that
\* child's place and the others stay as they are and where they are; when
\* none has, the tag is appended at the end
ReplaceInPlace ==
    [][\A tag \in AddTags :
          Add(tag, TRUE) =>
              /\ did'.ok
              /\ root'.kids = IF IndexOfName(root.kids, tag.name) = 0
                              THEN Append(root.kids, tag)
                              ELSE [root.kids EXCEPT ![IndexOfName(root.kids, tag.name)] = tag]
      ]_vars

\* no name has tags of different variants in a and in b, at any depth
RECURSIVE NoConflict(_, _)
NoConflict(a, b) ==
    \A i \in 1..Len(a), j \in 1..Len(b) :
        a[i].name = b[j].name =>
            /\ a[i].id = b[j].id
            /\ a[i].id = ID_Compound => NoConflict(a[i].kids, b[j].kids)

\* the values of a List's elements, as to_array gives them
ValuesOf(kids) == [i \in 1..Len(kids) |-> ValueOf(kids[i])]

\* res is what merging b into a (mode merge, recursive) is to leave: the
\* tags of a in their order, each unchanged when b lacks its name, merged
\* when both are Compounds and with b's value otherwise, then the tags of b
\* whose names a lacks, in b's order
RECURSIVE MergedAs(_, _, _)
MergedAs(res, a, b) ==
    LET New(t) == IndexOfName(a, t.name) = 0
        added  == SelectSeq(b, New)
    IN  /\ Len(res) = Len(a) + Len(added)
        /\ \A j \in 1..Len(added) : res[Len(a) + j] = added[j]
        /\ \A i \in 1..Len(a) :
              LET k == IndexOfName(b, a[i].name)
              IN  IF k = 0 THEN res[i] = a[i]
                  ELSE /\ res[i].name = a[i].name
                       /\ res[i].id = a[i].id
                       /\ IF a[i].id = ID_Compound
                          THEN MergedAs(res[i].kids, a[i].kids, b[k].kids)
                          ELSE IF a[i].id = ID_List
                          THEN ValuesOf(res[i].kids) = ValuesOf(b[k].kids)
                          ELSE ValueOf(res[i]) = ValueOf(b[k])

\* C13: when no name has tags of different variants in A and in B,
\* A.merge(B, mode='merge', recursive=True) returns and leaves in A the tags
\* only A had unchanged, copies of the tags only B had appended in B's
\* order, and for the names of both the merge of two Compounds or B's value
MergeMerges ==
    [][\A source \in Sources :
          (Merge(source, "merge", TRUE) /\ NoConflict(root.kids, source)) =>
              (did'.ok /\ MergedAs(root'.kids, root.kids, source))]_vars

\* C14: A.merge(B, mode='replace', recursive=r) returns for either r, and
\* afterwards every tag of B is in A as it is in B: A's child of that name
\* equals B's, so a Compound child of A keeps no children B's lacks
ReplaceCopies ==
    [][\A source \in Sources, recursive \in BOOLEAN :
          Merge(source, "replace", recursive) =>
              /\ did'.ok
              /\ \A j \in 1..Len(source) :
                    /\ IndexOfName(root'.kids, source[j].name) # 0
                    /\ root'.kids[IndexOfName(root'.kids, source[j].name)] = source[j]]_vars

(***************************************************************************)
(* Queries on a tag: contains and == asked of a List or a Compound.        *)
(***************************************************************************)
\* Compounds that hold no scalar: an empty one, one holding an empty one
Hollow == TAG_Compound(NoName, <<>>)

Nest == TAG_Compound(NoName, <<TAG_Compound(NameC, <<>>)>>)

\* Compounds {a: 1, b: 2} and {a: 1}
HasAB == TAG_Compound(NoName, <<TAG_Number(ID_Int, NameA, 1), TAG_Number(ID_Int, NameB, 2)>>)

HasA == TAG_Compound(NoName, <<TAG_Number(ID_Int, NameA, 1)>>)

ListInts == TAG_List(NameL, ID_Int, <<TAG_Number(ID_Int, NoName, 1), TAG_Number(ID_Int, NoName, 2)>>)

\* the Lists asked
Lists ==
    {TAG_List(NameL, ID_Compound, <<HasAB, HasA>>),
     TAG_List(NameL, ID_Compound, <<HasA, HasAB>>),
     ListInts,
     TAG_List(NameL, ID_Int, <<>>),
     TAG_List(NameL, ID_Compound, <<Hollow, Nest>>),
     TAG_List(NameL, ID_Compound, <<Nest, Hollow>>),
     TAG_List(NameL, ID_Compound, <<Hollow, Hollow, Nest>>),
     TAG_List(NameL, ID_Compound, <<Hollow, Nest, Nest>>)}

\* the tags asked: the Lists and a Compound holding an Int and a List
Selves == Lists \cup {TAG_Compound(NoName, <<TAG_Number(ID_Int, NameA, 1), ListInts>>)}

\* the tags compared with: the Lists, and Lists of another name, of another
\* element type, of another length
Others ==
    Lists \cup {TAG_List(NameA, ID_Int, <<>>),
                TAG_List(NameL, ID_Byte, <<>>),
                TAG_List(NameL, ID_Compound, <<Hollow>>)}

DictA == DictValue(<<Item(NameA, IntValue(1))>>)

DictAB == DictValue(<<Item(NameA, IntValue(1)), Item(NameB, IntValue(2))>>)

\* the templates given to contains
Templates ==
    {ListValue(<<DictA, DictAB>>),
     ListValue(<<DictAB, DictA>>),
     ListValue(<<DictA, DictA>>),
     ListValue(<<IntValue(2), IntValue(1)>>),
     ListValue(<<IntValue(1), IntValue(1)>>),
     ListValue(<<>>),
     IntValue(5),
     DictValue(<<Item(NameA, NoneValue), Item(NameL, ListValue(<<IntValue(2)>>))>>),
     DictValue(<<Item(NameB, NoneValue)>>)}

\* root.contains(template)
Contains(template) ==
    /\ did.n < MaxCalls
    /\ asked' = template
    /\ answer' = TagContains(root, template)
    /\ did' = Did("contains", TRUE, "", did.n + 1)
    /\ UNCHANGED <<root, stream, saved, fed, loaded, regionVars, handleVars>>

\* root == other
Equals(other) ==
    /\ did.n < MaxCalls
    /\ asked' = other
    /\ \E r \in {TagEq(root, other)} :
          /\ answer' = r.value
          /\ did' = Did("eq", r.ok, r.err, did.n + 1)
    /\ UNCHANGED <<root, stream, saved, fed, loaded, regionVars, handleVars>>

\* a program starts on one of the tags
QueryInit ==
    /\ NewFile
    /\ root \in Selves
    /\ stream = BEmpty
    /\ saved = NoneTag
    /\ fed = BEmpty
    /\ loaded = NoLoad
    /\ did = Did("", TRUE, "", 0)
    /\ asked = NoneTag
    /\ answer = FALSE

QueryNext ==
    \/ \E template \in Templates : Contains(template)
    \/ \E other \in Others : Equals(other)

QuerySpec == QueryInit /\ [][QueryNext]_vars

\* a and b are equal tags: the same variant, name and value; a List's
\* elements one by one, a Compound's children name by name
RECURSIVE SameTag(_, _)
SameTag(a, b) ==
    /\ a.id = b.id
    /\ a.name = b.name
    /\ Len(a.kids) = Len(b.kids)
    /\ IF a.id = ID_List
       THEN a.etype = b.etype /\ \A i \in 1..Len(a.kids) : SameTag(a.kids[i], b.kids[i])
       ELSE IF a.id = ID_Compound
       THEN \A i \in 1..Len(a.kids) :
               /\ IndexOfName(b.kids, a.kids[i].name) # 0
               /\ SameTag(a.kids[i], b.kids[IndexOfName(b.kids, a.kids[i].name)])
       ELSE ValueOf(a) = ValueOf(b)

\* the template value matches the tag: some one-to-one assignment of a
\* list's items to a List's elements pairs only matching ones; every item of
\* a dict is None under a name the Compound has or matches the child of its
\* name; a scalar's value is the template
RECURSIVE Fits(_, _)
Fits(tag, value) ==
    IF tag.id = ID_List
    THEN /\ value.id = 0
         /\ value.etype = PyList
         /\ \E f \in [1..Len(value.kids) -> 1..Len(tag.kids)] :
               /\ \A i, k \in 1..Len(value.kids) : f[i] = f[k] => i = k
               /\ \A i \in 1..Len(value.kids) : Fits(tag.kids[f[i]], value.kids[i])
    ELSE IF tag.id = ID_Compound
    THEN /\ value.id = 0
         /\ value.etype = PyDict
         /\ \A i \in 1..Len(value.kids) :
               /\ IndexOfName(tag.kids, value.kids[i].name) # 0
               /\ \/ Item(NoName, value.kids[i]) = NoneValue
                  \/ Fits(tag.kids[IndexOfName(tag.kids, value.kids[i].name)],
                          Item(NoName, value.kids[i]))
    ELSE ValueOf(tag) = value

\* C15: L.contains(T) on a List L and a list T is true exactly when the
\* items of T can be assigned one-to-one to elements of L they match, also
\* when the first element matching an earlier item is the only one matching
\* a later item
ContainsIffInjection ==
    (did.op = "contains" /\ root.id = ID_List /\ asked.etype = PyList)
        => (answer <=> Fits(root, asked))

\* C16: L == M on two Lists returns, and returns true exactly when they have
\* the same name, element type and length and equal elements at every
\* index; not for another order, not for other multiplicities
ListEqPositional ==
    (did.op = "eq" /\ root.id = ID_List /\ asked.id = ID_List)
        => (did.ok /\ (answer <=> SameTag(root, asked)))

(***************************************************************************)
(* Strings on the wire: payload() of a Compound holding one String and     *)
(* TAG_Compound.load on the bytes of such a Compound, with texts and names *)
(* of one and of several bytes a character and texts around the lengths    *)
(* 32767 and 65535.                                                        *)
(***************************************************************************)
\* 'a' followed by NUL characters, n characters in all
LongText(n) == [i \in 1..n |-> IF i = 1 THEN 97 ELSE 0] \o <<>>

\* the lengths of the long texts
TextLengths == {32767, 32768, 65535}

\* the Compounds holding one String
StringTrees ==
    {TAG_Compound(<<>>, <<TAG_String(<<115>>, text)>>) :
        text \in {<<>>, <<104>>, <<233>>, <<8364, 104>>} \cup {LongText(n) : n \in TextLengths}}
    \cup {TAG_Compound(<<>>, <<TAG_String(<<233>>, <<120>>)>>)}

\* the bytes of a Compound holding one String, as the format lays them out:
\* the id, the name's length in bytes and the name, the text's length in
\* bytes as an unsigned Short and the text, the End byte
Wire(tree) ==
    LET name == Utf8Encode(tree.kids[1].name)
        text == Utf8Encode(tree.kids[1].s)
    IN  Cat(ToBytes(ID_String, 1),
        Cat(ToBytes(name.len, 2),
        Cat(name,
        Cat(ToBytes(text.len, 2),
        Cat(text, ToBytes(0, 1))))))

WireOf == [tree \in StringTrees |-> Wire(tree)]

\* a program starts on one of the Compounds
WireInit ==
    /\ NewFile
    /\ root \in StringTrees
    /\ stream = BEmpty
    /\ saved = NoneTag
    /\ fed = BEmpty
    /\ loaded = NoLoad
    /\ did = Did("", TRUE, "", 0)
    /\ asked = NoneTag
    /\ answer = FALSE

WireNext ==
    \/ Save
    \/ \E tree \in StringTrees : Load(WireOf[tree])

WireSpec == WireInit /\ [][WireNext]_vars

\* C17: the length written before a String's text and before a name is the
\* number of bytes of its UTF-8 form as an unsigned 16-bit big-endian
\* number, for every length up to 65535 and every character: payload()
\* returns the bytes so laid out, and load reads them back as the same tags
UnsignedLengths ==
    /\ (did.op = "payload" /\ root \in StringTrees) =>
           (did.ok /\ stream = WireOf[root])
    /\ \A tree \in StringTrees :
           (did.op = "load" /\ fed = WireOf[tree]) =>
               (loaded.ok /\ loaded.tag.kids = tree.kids)

(***************************************************************************)
(* The codec: payload() of a Compound and TAG_Compound.load on the bytes   *)
(* it wrote, whole or cut short.                                           *)
(***************************************************************************)
\* a list value, from the sequence of its elements
ArrayOf(q) ==
    [len |-> Len(q), nz |-> [i \in {j \in 0..(Len(q) - 1) : q[j + 1] # 0} |-> q[i + 1]]]

\* the six numeric variants; the Float is 1.0 and the Double the least
\* positive one, given by their bit patterns
TreeNumbers ==
    TAG_Compound(<<>>,
        <<TAG_Number(ID_Byte, <<98>>, -1), TAG_Number(ID_Short, <<115>>, 258),
          TAG_Number(ID_Int, <<105>>, -2), TAG_Number(ID_Long, <<108>>, 5),
          TAG_Number(ID_Float, <<102>>, 1065353216), TAG_Number(ID_Double, <<100>>, 1)>>)

\* the three array variants and a String with a two-byte character
TreeArrays ==
    TAG_Compound(<<>>,
        <<TAG_Array(ID_Byte_Array, <<97>>, ArrayOf(<<-1, 0, 3>>)),
          TAG_Array(ID_Int_Array, <<98>>, ArrayOf(<<258>>)),
          TAG_Array(ID_Long_Array, <<99>>, ArrayOf(<<0, -2>>)),
          TAG_String(<<115>>, <<104, 233>>)>>)

\* Lists: of Ints, empty without a type, of Compounds, of Lists
TreeLists ==
    TAG_Compound(<<>>,
        <<TAG_List(<<108>>, ID_Int, <<TAG_Number(ID_Int, NoName, 1), TAG_Number(ID_Int, NoName, 2)>>),
          TAG_List(<<101>>, 0, <<>>),
          TAG_List(<<99>>, ID_Compound,
                   <<TAG_Compound(NoName, <<TAG_Number(ID_Byte, <<98>>, 1)>>)>>),
          TAG_List(<<110>>, ID_List,
                   <<TAG_List(NoName, ID_Byte, <<TAG_Number(ID_Byte, NoName, 7)>>)>>)>>)

\* Compounds in Compounds
TreeNested ==
    TAG_Compound(<<>>,
        <<TAG_Compound(<<99>>,
              <<TAG_Compound(<<99>>, <<TAG_String(<<115>>, <<>>)>>),
                TAG_Number(ID_Int, <<105>>, 1)>>)>>)

\* a child named '\u00e9', and one named '\u00e9a'
TreeAccent == TAG_Compound(<<>>, <<TAG_Number(ID_Int, <<233>>, 7)>>)

TreeAccentA == TAG_Compound(<<>>, <<TAG_Number(ID_Int, <<233, 97>>, 7)>>)

Trees ==
    {TAG_Compound(<<>>, <<>>), TreeNumbers, TreeArrays, TreeLists, TreeNested,
     TreeAccent, TreeAccentA}

\* the streams that end somewhere in b, and b itself
Prefixes(b) == {Sub(b, 0, n) : n \in 0..b.len}

\* a program starts on one of the trees
CodecInit ==
    /\ NewFile
    /\ root \in Trees
    /\ stream = BEmpty
    /\ saved = NoneTag
    /\ fed = BEmpty
    /\ loaded = NoLoad
    /\ did = Did("", TRUE, "", 0)
    /\ asked = NoneTag
    /\ answer = FALSE

CodecNext ==
    \/ Save
    \/ \E b \in Prefixes(stream) : Load(b)

CodecSpec == CodecInit /\ [][CodecNext]_vars

\* C6: decoding the bytes that encoding a Compound wrote gives a tree equal
\* to it, whatever variants and names it holds, and reads exactly those
\* bytes.
RoundTrip ==
    (did.op = "load" /\ saved # NoneTag /\ fed = stream) =>
        (loaded.ok /\ loaded.tag.kids = saved.kids /\ loaded.pos = stream.len)

\* C7: decoding a stream that ends before the End byte of the Compound, cut
\* anywhere, raises; it never returns a Compound.
TruncatedFails ==
    (did.op = "load" /\ saved # NoneTag /\ fed.len < stream.len /\ fed \in Prefixes(stream)) =>
        ~loaded.ok

(***************************************************************************)
(* A region file that exists when it is opened: the header names a blob at *)
(* sector 2 for slot (0, 0) and one at sector 3 for slot (31, 31).  The    *)
(* first blob carries any compression id, over plain or deflated data.     *)
(***************************************************************************)
\* the chunk both blobs hold: Compound('') holding Int('x', 7)
ChunkOnDisk == TAG_Compound(<<>>, <<TAG_Number(ID_Int, <<120>>, 7)>>)

\* the compression ids found in the first blob
BlobIds == {0, 3, 4, 7, 255}

\* a file of two one-sector blobs, the first with the compression id given
\* over data written with the selector given
FileOf(id, compression) ==
    LET header == FWrite(FWrite(FWrite(FWrite(Zeros(2 * SECTOR),
                      4 * HeaderIndex(<<0, 0>>), ToBytes(2 * 256 + 1, 4)),
                      4 * HeaderIndex(<<31, 31>>), ToBytes(3 * 256 + 1, 4)),
                      SECTOR + 4 * HeaderIndex(<<0, 0>>), ToBytes(1793833579, 4)),
                      SECTOR + 4 * HeaderIndex(<<31, 31>>), ToBytes(1793833579, 4))
        first  == FWrite(ChunkBlob(ChunkOnDisk, compression), 4, ToBytes(id, 1))
    IN  Cat(header, Cat(first, ChunkBlob(ChunkOnDisk, "zlib")))

OpenFiles == {FileOf(id, compression) : id \in BlobIds, compression \in {"none", "zlib"}}

\* RegionFile.__init__(path) on a path that exists: __load_header
ExistingFile ==
    /\ file \in OpenFiles
    /\ locations = [slot \in Slots |-> LoadHeader(file).locations[slot]]
    /\ timestamps = [slot \in Slots |-> LoadHeader(file).timestamps[slot]]
    /\ chunks = [slot \in Slots |-> NoneTag]
    /\ writes = 0
    /\ last = Call("open", <<0, 0>>, 0, 0, NoneTag)
    /\ RegionOpened

OpenInit == ExistingFile /\ NoTags

OpenNext ==
    \/ \E slot \in Slots, chunk \in Chunks : SetChunk(slot, chunk)
    \/ \E slot \in Slots : UnloadChunk(slot)
    \/ \E slot \in Slots : LoadChunk(slot)

OpenSpec == OpenInit /\ [][OpenNext]_vars

\* the compression id in the blob of a present slot
BlobCompression(slot) ==
    UInt(ReadAt(file, SECTOR * ExtractLoc(locations, slot).offset + 4, 1))

\* C8: load_chunk on a present slot whose blob has a compression id other
\* than 1, 2, 3 raises; it leaves the locations, the timestamps and the
\* cached chunks as they were, and the other present slots still load.
UnknownCompressionFails ==
    [][\A slot \in Slots :
          (locations[slot] # 0 /\ BlobCompression(slot) \notin {1, 2, 3} /\ LoadChunk(slot)) =>
              /\ ~ReadChunk(locations, file, slot).ok
              /\ UNCHANGED <<locations, timestamps, chunks>>
              /\ \A other \in Slots \ {slot} :
                    locations'[other] # 0 => ReadChunk(locations', file', other).ok
      ]_vars

(***************************************************************************)
(* NBTFile, and the descriptor of a file object of either class.  The file *)
(* is what a read through self.__fp sees, what it buffers included.        *)
(***************************************************************************)
\* the roots held by the files that exist when they are opened
DiskRoots == {TAG_Compound(NoName, <<>>), TAG_Compound(NoName, <<TAG_Number(ID_Int, NameA, 1)>>)}

NBTModes == {"create", "modify"}

\* gzip.compress(payload) if self.__compress
Wrapped(compress, payload) == IF compress THEN Deflate(GzipMagic, payload) ELSE payload

\* NBTFile.load on the bytes f: gzip.decompress if self.__compress, then
\* TAG_Compound.load(None, fp)
NBTRead(f, compress) ==
    LET Decode(data) == CompoundLoad(NoName, data, 0)
        Unzipped(z) == IF ~z.ok THEN Raised("BadGzipFile", 0) ELSE Decode(z.data)
    IN  IF compress THEN Unzipped(GzipDecompress(f)) ELSE Decode(f)

\* no region is worked on
NoRegion ==
    /\ locations = [slot \in Slots |-> 0]
    /\ timestamps = [slot \in Slots |-> 0]
    /\ chunks = [slot \in Slots |-> NoneTag]
    /\ writes = 0
    /\ last = Call("open", <<0, 0>>, 0, 0, NoneTag)

\* NBTFile.__init__(path, mode, compress): create opens "wb" and starts on
\* TAG_Compound(None); modify opens "wb+" a path that does not exist and
\* sets no root, and opens "rb+" a file that exists, holding disk, and
\* loads it
NBTOpened(mode, compress, exists, disk) ==
    /\ opened = [class |-> "NBTFile", mode |-> mode, compress |-> compress]
    /\ scope = "new"
    /\ IF mode = "create"
       THEN /\ file = BEmpty
            /\ root = TAG_Compound(NoName, <<>>)
            /\ fp = [pos |-> 0, closed |-> FALSE]
       ELSE IF ~exists
       THEN /\ file = BEmpty
            /\ root = NoneTag
            /\ fp = [pos |-> 0, closed |-> FALSE]
       ELSE /\ file = Wrapped(compress, Payload(disk))
            /\ root = NBTRead(file, compress).tag
            /\ fp = [pos |-> file.len, closed |-> FALSE]

\* the object is an NBTFile and has not been destroyed
IsNBT == opened.class = "NBTFile" /\ scope # "gone"

\* NBTFile.save(): truncate(0), which leaves the position where it was,
\* then the payload, wrapped, written at the position
NBTSave ==
    /\ IsNBT
    /\ did.n < MaxCalls
    /\ IF root = NoneTag
       THEN /\ file' = FTruncate(file, 0)
            /\ did' = Did("save", FALSE, "AttributeError", did.n + 1)
            /\ UNCHANGED fp
       ELSE IF PayloadRaises(root)
       THEN /\ file' = FTruncate(file, 0)
            /\ did' = Did("save", FALSE, "TypeError", did.n + 1)
            /\ UNCHANGED fp
       ELSE \E payload \in {Wrapped(opened.compress, Payload(root))} :
               /\ file' = FWrite(FTruncate(file, 0), fp.pos, payload)
               /\ fp' = [fp EXCEPT !.pos = fp.pos + payload.len]
               /\ did' = Did("save", TRUE, "", did.n + 1)
    /\ UNCHANGED <<locations, timestamps, chunks, writes, last, opened, scope,
                   root, stream, saved, fed, loaded, asked, answer>>

\* NBTFile.load(): seek(0), read() to the end, decode; a file opened "wb"
\* cannot be read
NBTLoad ==
    /\ IsNBT
    /\ did.n < MaxCalls
    /\ IF opened.mode = "create"
       THEN /\ fp' = [fp EXCEPT !.pos = 0]
            /\ did' = Did("load", FALSE, "UnsupportedOperation", did.n + 1)
            /\ UNCHANGED root
       ELSE \E r \in {NBTRead(file, opened.compress)} :
               /\ fp' = [fp EXCEPT !.pos = file.len]
               /\ root' = IF r.ok THEN r.tag ELSE root
               /\ did' = Did("load", r.ok, r.err, did.n + 1)
    /\ UNCHANGED <<regionVars, opened, scope, stream, saved, fed, loaded, asked, answer>>

\* file.root.add(tag)
NBTAdd(tag) == IsNBT /\ root # NoneTag /\ Add(tag, FALSE)

\* the caller went on: the call op, which returned or raised err
Went(op, ok, err) ==
    /\ did.n < MaxCalls
    /\ did' = Did(op, ok, err, did.n + 1)
    /\ UNCHANGED <<regionVars, opened, root, stream, saved, fed, loaded, asked, answer>>

\* with obj: __enter__ returns self
Enter == scope = "new" /\ scope' = "with" /\ Went("enter", TRUE, "") /\ UNCHANGED fp

\* the block of the with statement is left, by its end or by an exception:
\* __exit__ does nothing and returns None, so an exception goes on
Exit(raised) ==
    /\ scope = "with"
    /\ scope' = "left"
    /\ Went("exit", ~raised, IF raised THEN "Exception" ELSE "")
    /\ UNCHANGED fp

\* obj.close(): neither class has a close
Close == scope # "gone" /\ Went("close", FALSE, "AttributeError") /\ UNCHANGED <<fp, scope>>

\* the object is destroyed: __del__ closes self.__fp
Del ==
    /\ scope \in {"new", "left"}
    /\ scope' = "gone"
    /\ fp' = [fp EXCEPT !.closed = TRUE]
    /\ Went("del", TRUE, "")

\* the object is a RegionFile and has not been destroyed
IsRegion == opened.class = "RegionFile" /\ scope # "gone"

\* a program opens a RegionFile on a new path or an NBTFile
FileInit ==
    \/ NewFile /\ NoTags
    \/ /\ \E mode \in NBTModes, compress \in BOOLEAN, exists \in BOOLEAN, disk \in DiskRoots :
             NBTOpened(mode, compress, exists, disk)
       /\ NoRegion
       /\ stream = BEmpty
       /\ saved = NoneTag
       /\ fed = BEmpty
       /\ loaded = NoLoad
       /\ did = Did("", TRUE, "", 0)
       /\ asked = NoneTag
       /\ answer = FALSE

FileNext ==
    \/ NBTSave
    \/ NBTLoad
    \/ \E tag \in AddTags : NBTAdd(tag)
    \/ \E slot \in Slots, chunk \in Chunks : IsRegion /\ SetChunk(slot, chunk)
    \/ \E slot \in Slots : IsRegion /\ UnloadChunk(slot)
    \/ Enter
    \/ \E raised \in BOOLEAN : Exit(raised)
    \/ Close
    \/ Del

FileSpec == FileInit /\ [][FileNext]_vars

\* C18: right after every save() on an NBTFile opened in create or modify
\* mode, whatever loads and saves came before, the call has returned and
\* the whole file is the encoding of the root, wrapped by gzip if asked,
\* with no byte before or after it
SavedIsEncoding ==
    (opened.class = "NBTFile" /\ did.op = "save") =>
        (did.ok /\ file = Wrapped(opened.compress, Payload(root)))

\* C19: once the caller has left the block of a with statement on a
\* RegionFile or an NBTFile, by its end or by an exception, or has called
\* close, the descriptor is closed, not left open until the object is
\* destroyed
ReleasedOnExit == (scope = "left" \/ did.op = "close") => fp.closed

====
